---- MODULE Spec2Model ----
(***************************************************************************)
(* A model of rimusic2yt.py: the importer of RiMusic playlist exports      *)
(* into YouTube playlists.                                                 *)
(*                                                                         *)
(* Python strings whose characters matter (file names, titles, playlist    *)
(* names, dates) are sequences of one-character strings.  An optional      *)
(* value is a set with at most one element (None is the empty set).        *)
(***************************************************************************)
EXTENDS Integers, Sequences, FiniteSets, TLC

VARIABLES
    pc,             \* position of the run in main / process_playlist
    raised,         \* the exception that ended the run, "" when none
    args,           \* the parsed command line (argparse namespace)
    disk,           \* path -> what the file system holds at that path
    today,          \* datetime.datetime.now().isoformat()[:10]
    playlist_name,  \* main's local playlist_name, None before line 226
    data,           \* the frame get_unique_songs returns / process_playlist's argument
    media_id,       \* process_playlist's local media_id
    playlist,       \* the id of the response of create_playlist, None before
    idx,            \* number of songs the for loop has taken from media_id
    calls,          \* the calls made to the collaborators, oldest first
    out             \* the printed lines, oldest first

vars == <<pc, raised, args, disk, today, playlist_name, data, media_id,
          playlist, idx, calls, out>>

(***************************************************************************)
(* Bounds of the model.                                                    *)
(***************************************************************************)
MaxRows == 3
MaxTitleLen == 2

(***************************************************************************)
(* Generic helpers.                                                        *)
(***************************************************************************)
None == {}

Some(v) == {v}

Get(o) == CHOOSE v \in o : TRUE

Min(a, b) == IF a <= b THEN a ELSE b

SeqUpTo(S, n) == UNION {[1..k -> S] : k \in 0..n}

Range(s) == {s[i] : i \in 1..Len(s)}

IsPrefix(p, s) == Len(p) <= Len(s) /\ SubSeq(s, 1, Len(p)) = p

\* Python's s[a:b] for 0 <= a <= b: both ends are clamped to the length.
Slice(s, a, b) ==
    IF Min(a, Len(s)) >= Min(b, Len(s)) THEN <<>>
    ELSE SubSeq(s, Min(a, Len(s)) + 1, Min(b, Len(s)))

\* Python's s[a:].
SliceFrom(s, a) == Slice(s, a, Len(s))

NL == "\n"

(***************************************************************************)
(* Character strings of the program.                                       *)
(***************************************************************************)
\* The literal head of the pattern of line 80.
PREFIX == <<"R", "M", "P", "l", "a", "y", "l", "i", "s", "t", "_">>

\* The literal tail of the pattern of line 80, and the suffix of lines 224, 234.
DOTCSV == <<".", "c", "s", "v">>

\* The marker of lines 244-245 and 261.
EMARK == <<"e", ":">>

(***************************************************************************)
(* get_youtube_playlist_name (lines 57-84).                                *)
(***************************************************************************)
\* Where the match of line 80 can end: "$" matches at the end of the string
\* and just before a newline that ends the string.
MatchEnds(file) ==
    {Len(file)} \cup
    (IF Len(file) >= 1 /\ file[Len(file)] = NL THEN {Len(file) - 1} ELSE {})

\* The ways "^RMPlaylist_(.*)_([^_]*)\.csv$" matches file: <<i, e>> where
\* file[i] is the "_" between the two groups and e the last matched
\* character.  "." matches no newline, "[^_]" matches no "_".
ReMatches(file) ==
    IF ~IsPrefix(PREFIX, file) THEN {}
    ELSE {m \in ((Len(PREFIX) + 1)..Len(file)) \X MatchEnds(file) :
            /\ file[m[1]] = "_"
            /\ m[1] + Len(DOTCSV) <= m[2]
            /\ SubSeq(file, m[2] - Len(DOTCSV) + 1, m[2]) = DOTCSV
            /\ NL \notin Range(SubSeq(file, Len(PREFIX) + 1, m[1] - 1))
            /\ "_" \notin Range(SubSeq(file, m[1] + 1, m[2] - Len(DOTCSV)))}

\* re.search of line 80: None, or the groups <<name, time>> of the match the
\* greedy quantifiers find (the longest first group, then the longest second).
ReSearch(file) ==
    IF ReMatches(file) = {} THEN None
    ELSE LET m == CHOOSE x \in ReMatches(file) :
                    \A y \in ReMatches(file) :
                        \/ y[1] < x[1]
                        \/ (y[1] = x[1] /\ y[2] <= x[2])
         IN  Some(<<SubSeq(file, Len(PREFIX) + 1, m[1] - 1),
                    SubSeq(file, m[1] + 1, m[2] - Len(DOTCSV))>>)

\* Line 84: the three slices of the second group, dashes between them, a
\* blank and the first group.
FormatName(name, time) ==
    Slice(time, 0, 4) \o <<"-">> \o Slice(time, 4, 6) \o <<"-">>
        \o Slice(time, 6, 8) \o <<" ">> \o name

\* Line 82: the current date, a blank and the file name.
FallbackName(now, file) == now \o <<" ">> \o file

get_youtube_playlist_name(file, now) ==
    LET m == ReSearch(file)
    IN  IF m = None THEN FallbackName(now, file)
        ELSE FormatName(Get(m)[1], Get(m)[2])

(***************************************************************************)
(* Exports: the rows pandas reads from a CSV file, in file order.          *)
(***************************************************************************)
Track(id, artists, title) == [MediaId |-> id, Artists |-> artists, Title |-> title]

\* The rows the exports of the model are made of.  A row may occur several
\* times in an export (rows sharing a MediaId).
Tracks ==
    { Track("v1", <<"A">>, <<"e", ":", "S">>),
      Track("v2", <<"B">>, <<"S">>),
      Track("v3", <<"A">>, <<"S", "e", ":">>) }

Exports == SeqUpTo(Tracks, MaxRows)

\* What the file system holds at a path.
File(rows) == [kind |-> "file", rows |-> rows]

Directory == [kind |-> "dir", rows |-> <<>>]

Missing == [kind |-> "missing", rows |-> <<>>]

\* pathlib's Path.exists(), Path.is_file() and Path.suffix (lines 222-224,
\* 232-234) and Path.name of a path without directory part (line 228).
Exists(path) == disk[path].kind # "missing"

IsFile(path) == disk[path].kind = "file"

\* Path.name: what follows the last "/" of the path.
PathName(path) ==
    IF "/" \in Range(path)
    THEN LET i == CHOOSE k \in 1..Len(path) :
                    path[k] = "/" /\ \A j \in (k + 1)..Len(path) : path[j] # "/"
         IN  SubSeq(path, i + 1, Len(path))
    ELSE path

LastDot(name) ==
    IF "." \in Range(name)
    THEN CHOOSE i \in 1..Len(name) :
            name[i] = "." /\ \A j \in (i + 1)..Len(name) : name[j] # "."
    ELSE 0

\* Path.suffix: the suffix of the name of the path.
Suffix(path) ==
    LET name == PathName(path)
    IN  IF 1 < LastDot(name) /\ LastDot(name) < Len(name)
        THEN SubSeq(name, LastDot(name), Len(name))
        ELSE <<>>

\* pd.read_csv of a path that holds an export (lines 172, 173, 258).
read_csv(path) == disk[path].rows

\* The column data["MediaId"] (lines 132, 175, 176, 179).
MediaIdColumn(rows) == [i \in 1..Len(rows) |-> rows[i].MediaId]

(***************************************************************************)
(* get_unique_songs (lines 161-181).                                       *)
(***************************************************************************)
\* get_unique_songs keeping only the first row of each MediaId.
get_unique_songs_dedup(main_playlist, compare_playlist) ==
    LET main_data == read_csv(main_playlist)
        compare_data == read_csv(compare_playlist)
        main_id == Range(MediaIdColumn(main_data))
        first == {i \in 1..Len(compare_data) :
                    /\ compare_data[i].MediaId \notin main_id
                    /\ \A j \in 1..(i - 1) :
                         compare_data[j].MediaId # compare_data[i].MediaId}
        place(k) == CHOOSE i \in first :
                        Cardinality({j \in first : j <= i}) = k
    IN  [k \in 1..Cardinality(first) |-> compare_data[place(k)]]

\* get_unique_songs with the two frames taken the other way round.
get_unique_songs_swapped(main_playlist, compare_playlist) ==
    LET main_data == read_csv(main_playlist)
        compare_data == read_csv(compare_playlist)
        main_id == Range(MediaIdColumn(main_data))
        compare_id == Range(MediaIdColumn(compare_data))
        unique_id == main_id \ compare_id
        isin(row) == row.MediaId \in unique_id
    IN  SelectSeq(main_data, isin)

get_unique_songs(main_playlist, compare_playlist) ==
    LET main_data == read_csv(main_playlist)
        compare_data == read_csv(compare_playlist)
        main_id == Range(MediaIdColumn(main_data))
        compare_id == Range(MediaIdColumn(compare_data))
        unique_id == compare_id \ main_id
        isin(row) == row.MediaId \in unique_id
    IN  SelectSeq(compare_data, isin)

(***************************************************************************)
(* The values process_playlist is called with: a frame (line 252) or the   *)
(* path itself (line 267).                                                 *)
(***************************************************************************)
DataFrame(rows) == [kind |-> "DataFrame", rows |-> rows, path |-> <<>>]

PathValue(path) == [kind |-> "Path", rows |-> <<>>, path |-> path]

(***************************************************************************)
(* Printed lines (lines 129, 139, 158, 239-250, 256-264).                  *)
(***************************************************************************)
Line(kind, text) == [kind |-> kind, text |-> text]

\* DisplayTitle with the first two characters dropped whatever they are.
DisplayTitle_AlwaysStrips(title) == SliceFrom(title, Len(EMARK))

\* Lines 243-247 and 261: the title without a leading "e:".
DisplayTitle(title) ==
    IF IsPrefix(EMARK, title) THEN SliceFrom(title, Len(EMARK)) ELSE title

\* Lines 241-248 and 259-262: the line printed for one row.
TrackLine(row) ==
    Line("track", row.Artists \o <<" ", "-", " ">> \o DisplayTitle(row.Title))

\* DataFrame.apply(..., axis=1) of lines 240-250 and 258-264: one line per
\* row, in row order.
TrackLines(rows) == [i \in 1..Len(rows) |-> TrackLine(rows[i])]

(***************************************************************************)
(* Calls to the collaborators: authenticate (line 131), playlists().insert *)
(* (lines 98-109) and playlistItems().insert (lines 144-156).              *)
(***************************************************************************)
Call(op, title, playlistId, videoId, ok) ==
    [op |-> op, title |-> title, playlistId |-> playlistId,
     videoId |-> videoId, ok |-> ok]

\* The identifiers the remote side may assign to a new playlist.
PlaylistIds == {"PL1", "PL2"}

(***************************************************************************)
(* The inputs of a run.                                                    *)
(***************************************************************************)
RM_NAME == <<"R", "M", "P", "l", "a", "y", "l", "i", "s", "t", "_", "M", "i", "x", "_", "2", "0", "2", "3", "0", "9", "1", "5", ".", "c", "s", "v">>

OTHER_NAME == <<"O", "t", "h", "e", "r", ".", "c", "s", "v">>

TXT_NAME == <<"n", "o", "t", "e", "s", ".", "t", "x", "t">>

\* Paths with a directory part.
DIR_RM_NAME == <<"d", "/">> \o RM_NAME

CSVDIR_NAME == <<"x", ".", "c", "s", "v", "/", "n", "o", "t", "e", "s">>

OLD_NAME == <<"O", "l", "d", ".", "c", "s", "v">>

OLD_TXT_NAME == <<"O", "l", "d", ".", "t", "x", "t">>

MY_NAME == <<"M", "y">>

DATE_A == <<"2", "0", "2", "6", "-", "1", "1", "-", "0", "2">>

DATE_B == <<"1", "9", "9", "9", "-", "1", "2", "-", "3", "1">>

Args(csv, name, dry, processed) ==
    [csv_playlist |-> csv, playlist_name |-> name, dry_run |-> dry,
     already_processed |-> processed]

\* Runs whose paths pass the assertions of lines 222-224 and 232-235: an
\* export, and no baseline, the export itself as baseline, or another export
\* (with a playlist name given, against an export without rows).
ValidWorlds ==
    { [args |-> Args(n, pn, dry, None), disk |-> (n :> File(e))] :
        n \in {RM_NAME, OTHER_NAME, DIR_RM_NAME},
        pn \in {None, Some(MY_NAME)}, dry \in BOOLEAN, e \in Exports }
    \cup
    { [args |-> Args(RM_NAME, None, dry, Some(RM_NAME)),
       disk |-> (RM_NAME :> File(e))] :
        dry \in BOOLEAN, e \in Exports }
    \cup
    { [args |-> Args(RM_NAME, None, dry, Some(OLD_NAME)),
       disk |-> (RM_NAME :> File(e)) @@ (OLD_NAME :> File(b))] :
        dry \in BOOLEAN, e \in Exports, b \in Exports }
    \cup
    { [args |-> Args(RM_NAME, Some(MY_NAME), dry, Some(OLD_NAME)),
       disk |-> (RM_NAME :> File(<<>>)) @@ (OLD_NAME :> File(b))] :
        dry \in BOOLEAN, b \in Exports }

\* Runs with a path that fails an assertion, or a baseline that is no file.
InvalidWorlds ==
    { [args |-> Args(n, None, dry, None), disk |-> (n :> f)] :
        n \in {RM_NAME, TXT_NAME, CSVDIR_NAME}, dry \in BOOLEAN,
        f \in {Missing, Directory, File(<<>>)} }
    \cup
    { [args |-> Args(RM_NAME, None, dry, Some(b)),
       disk |-> (RM_NAME :> File(<<>>)) @@ (b :> f)] :
        b \in {OLD_NAME, OLD_TXT_NAME}, dry \in BOOLEAN,
        f \in {Missing, Directory, File(<<>>)} }

StartOfRun(world, now, at) ==
    /\ pc = at
    /\ raised = ""
    /\ args = world.args
    /\ disk = world.disk
    /\ today = now
    /\ playlist_name = None
    /\ data = None
    /\ media_id = <<>>
    /\ playlist = None
    /\ idx = 0
    /\ calls = <<>>
    /\ out = <<>>

Init == \E world \in ValidWorlds \cup InvalidWorlds : StartOfRun(world, DATE_A, "start")

(***************************************************************************)
(* main (lines 184-267).                                                   *)
(***************************************************************************)
Raise(exception) ==
    /\ pc' = "crashed"
    /\ raised' = exception

\* CheckExportPath without the assertion of line 223.
CheckExportPath_NoIsFile ==
    /\ pc = "start"
    /\ IF /\ Exists(args.csv_playlist)
          /\ Suffix(args.csv_playlist) = DOTCSV
       THEN pc' = "Idle" /\ UNCHANGED raised
       ELSE Raise("AssertionError")
    /\ UNCHANGED <<args, disk, today, playlist_name, data, media_id,
                   playlist, idx, calls, out>>

\* Lines 220-224: the assertions on the export path.
CheckExportPath ==
    /\ pc = "start"
    /\ IF /\ Exists(args.csv_playlist)
          /\ IsFile(args.csv_playlist)
          /\ Suffix(args.csv_playlist) = DOTCSV
       THEN pc' = "Idle" /\ UNCHANGED raised
       ELSE Raise("AssertionError")
    /\ UNCHANGED <<args, disk, today, playlist_name, data, media_id,
                   playlist, idx, calls, out>>

\* ResolveName without the test of line 227: the name is always derived.
ResolveName_IgnoresArgument ==
    /\ pc = "Idle"
    /\ playlist_name' =
           Some(get_youtube_playlist_name(PathName(args.csv_playlist), today))
    /\ pc' = "NameResolved"
    /\ UNCHANGED <<raised, args, disk, today, data, media_id, playlist, idx,
                   calls, out>>

\* Lines 226-228: the playlist name.
ResolveName ==
    /\ pc = "Idle"
    /\ playlist_name' =
           IF args.playlist_name = None
           THEN Some(get_youtube_playlist_name(
                         PathName(args.csv_playlist), today))
           ELSE args.playlist_name
    /\ pc' = "NameResolved"
    /\ UNCHANGED <<raised, args, disk, today, data, media_id, playlist, idx,
                   calls, out>>

\* Lines 230-237: the assertions on the baseline path and the diff.
\* pd.read_csv raises on a path that is a directory.
DiffAgainstProcessed ==
    /\ pc = "NameResolved"
    /\ args.already_processed # None
    /\ LET compare_path == Get(args.already_processed)
       IN  IF ~(Exists(compare_path) /\ Suffix(compare_path) = DOTCSV)
           THEN Raise("AssertionError") /\ UNCHANGED data
           ELSE IF ~IsFile(compare_path)
           THEN Raise("IsADirectoryError") /\ UNCHANGED data
           ELSE /\ data' = Some(DataFrame(
                      get_unique_songs(args.csv_playlist, compare_path)))
                /\ pc' = "Diffed"
                /\ UNCHANGED raised
    /\ UNCHANGED <<args, disk, today, playlist_name, media_id, playlist, idx,
                   calls, out>>

\* Lines 238-251: the dry run of a diff.
DryRunUnique ==
    /\ pc = "Diffed"
    /\ args.dry_run
    /\ out' = out \o <<Line("dry_run_unique", <<>>)>>
                  \o TrackLines(Get(data).rows)
    /\ pc' = "returned"
    /\ UNCHANGED <<raised, args, disk, today, playlist_name, data, media_id,
                   playlist, idx, calls>>

\* ProcessUnique without the test of line 238.
ProcessUnique_IgnoresDryRun ==
    /\ pc = "Diffed"
    /\ out' = out \o <<Line("processing", Get(playlist_name))>>
    /\ pc' = "process_playlist"
    /\ UNCHANGED <<raised, args, disk, today, playlist_name, data, media_id,
                   playlist, idx, calls>>

\* Line 252 and line 129: process_playlist is entered with the diff.
ProcessUnique ==
    /\ pc = "Diffed"
    /\ ~args.dry_run
    /\ out' = out \o <<Line("processing", Get(playlist_name))>>
    /\ pc' = "process_playlist"
    /\ UNCHANGED <<raised, args, disk, today, playlist_name, data, media_id,
                   playlist, idx, calls>>

\* Lines 255-265: the dry run of an export.
DryRun ==
    /\ pc = "NameResolved"
    /\ args.already_processed = None
    /\ args.dry_run
    /\ out' = out \o <<Line("name", PathName(args.csv_playlist)), Line("songs", <<>>)>>
                  \o TrackLines(read_csv(args.csv_playlist))
    /\ pc' = "returned"
    /\ UNCHANGED <<raised, args, disk, today, playlist_name, data, media_id,
                   playlist, idx, calls>>

\* Line 267 and line 129: process_playlist is entered with the path.
ProcessExport ==
    /\ pc = "NameResolved"
    /\ args.already_processed = None
    /\ ~args.dry_run
    /\ data' = Some(PathValue(args.csv_playlist))
    /\ out' = out \o <<Line("processing", Get(playlist_name))>>
    /\ pc' = "process_playlist"
    /\ UNCHANGED <<raised, args, disk, today, playlist_name, media_id,
                   playlist, idx, calls>>

(***************************************************************************)
(* process_playlist (lines 113-158).                                       *)
(***************************************************************************)
\* Authenticate with its failure swallowed: the run goes on without
\* credentials.
Authenticate_IgnoresFailure ==
    /\ pc = "process_playlist"
    /\ \E ok \in BOOLEAN :
        calls' = Append(calls, Call("authenticate", <<>>, "", "", ok))
    /\ pc' = "authenticated"
    /\ UNCHANGED <<raised, args, disk, today, playlist_name, data, media_id,
                   playlist, idx, out>>

\* Line 131: authenticate returns the credentials or raises; nothing
\* catches what it raises.
Authenticate ==
    /\ pc = "process_playlist"
    /\ \E ok \in BOOLEAN :
        /\ calls' = Append(calls, Call("authenticate", <<>>, "", "", ok))
        /\ IF ok THEN pc' = "authenticated" /\ UNCHANGED raised
                 ELSE Raise("AuthError")
    /\ UNCHANGED <<args, disk, today, playlist_name, data, media_id,
                   playlist, idx, out>>

\* Line 132: data["MediaId"], outside the try.  A Path has no __getitem__.
ReadMediaId ==
    /\ pc = "authenticated"
    /\ IF Get(data).kind = "DataFrame"
       THEN /\ media_id' = MediaIdColumn(Get(data).rows)
            /\ pc' = "try"
            /\ UNCHANGED raised
       ELSE Raise("TypeError") /\ UNCHANGED media_id
    /\ UNCHANGED <<args, disk, today, playlist_name, data, playlist, idx,
                   calls, out>>

\* CreatePlaylist with the HttpError of the creation swallowed: the loop
\* is entered all the same.
CreatePlaylist_IgnoresError ==
    /\ pc = "try"
    /\ \/ \E id \in PlaylistIds :
            /\ calls' = Append(calls,
                   Call("create_playlist", Get(playlist_name), id, "", TRUE))
            /\ playlist' = Some(id)
            /\ out' = Append(out, Line("created", <<id>>))
       \/ /\ calls' = Append(calls,
                 Call("create_playlist", Get(playlist_name), "", "", FALSE))
          /\ playlist' = Some("")
          /\ out' = Append(out, Line("error", <<>>))
    /\ pc' = "Inserting"
    /\ UNCHANGED <<raised, args, disk, today, playlist_name, data, media_id,
                   idx>>

\* Lines 134-139, and 157-158 when the call raises HttpError.
CreatePlaylist ==
    /\ pc = "try"
    /\ \/ \E id \in PlaylistIds :
            /\ calls' = Append(calls,
                   Call("create_playlist", Get(playlist_name), id, "", TRUE))
            /\ playlist' = Some(id)
            /\ out' = Append(out, Line("created", <<id>>))
            /\ pc' = "Inserting"
       \/ /\ calls' = Append(calls,
                 Call("create_playlist", Get(playlist_name), "", "", FALSE))
          /\ out' = Append(out, Line("error", <<>>))
          /\ pc' = "Failed"
          /\ UNCHANGED playlist
    /\ UNCHANGED <<raised, args, disk, today, playlist_name, data, media_id,
                   idx>>

\* AddItem with a failed insertion caught inside the loop and issued again.
AddItem_RetriesOnFailure ==
    /\ pc = "Inserting"
    /\ idx < Len(media_id)
    /\ \E ok \in BOOLEAN :
        /\ calls' = Append(calls,
               Call("add_item", <<>>, Get(playlist), media_id[idx + 1], ok))
        /\ IF ok THEN idx' = idx + 1 /\ UNCHANGED out
                 ELSE /\ out' = Append(out, Line("error", <<>>))
                      /\ UNCHANGED idx
    /\ UNCHANGED <<pc, raised, args, disk, today, playlist_name, data,
                   media_id, playlist>>

\* Lines 142-156 for one song, and 157-158 when the call raises HttpError:
\* the except clause is outside the loop.
AddItem ==
    /\ pc = "Inserting"
    /\ idx < Len(media_id)
    /\ idx' = idx + 1
    /\ \E ok \in BOOLEAN :
        /\ calls' = Append(calls,
               Call("add_item", <<>>, Get(playlist), media_id[idx + 1], ok))
        /\ IF ok THEN UNCHANGED <<pc, out>>
                 ELSE /\ out' = Append(out, Line("error", <<>>))
                      /\ pc' = "Failed"
    /\ UNCHANGED <<raised, args, disk, today, playlist_name, data, media_id,
                   playlist>>

\* Line 142: the loop ends when media_id is exhausted; process_playlist
\* returns.
EndOfLoop ==
    /\ pc = "Inserting"
    /\ idx = Len(media_id)
    /\ pc' = "Done"
    /\ UNCHANGED <<raised, args, disk, today, playlist_name, data, media_id,
                   playlist, idx, calls, out>>

Next ==
    \/ CheckExportPath
    \/ ResolveName
    \/ DiffAgainstProcessed
    \/ DryRunUnique
    \/ ProcessUnique
    \/ DryRun
    \/ ProcessExport
    \/ Authenticate
    \/ ReadMediaId
    \/ CreatePlaylist
    \/ AddItem
    \/ EndOfLoop

Spec == Init /\ [][Next]_vars

(***************************************************************************)
(* get_youtube_playlist_name on strings of many shapes: lines 226-228      *)
(* applied to names put together from a head, a title, a separator, a date *)
(* field and an extension, whatever their suffix.                          *)
(***************************************************************************)
NameHeads == {PREFIX, <<"R", "M", "P", "l", "a", "y", "l", "i", "s", "t">>, <<"X", "M", "P", "l", "a", "y", "l", "i", "s", "t", "_">>}

TitleChars == {"a", "_", NL}

NameSeparators == {<<"_">>, <<>>}

DateFields ==
    { <<"2", "0", "2", "3", "0", "9", "1", "5">>,
      <<"1", "9", "9", "9", "1", "2", "3", "1">>,
      <<"2", "0", "2", "3", "0", "9", "1">>,
      <<"2", "0", "2", "3", "0", "9", "1", "5", "0">>,
      <<"2", "0", "2", "3", "x", "9", "1", "5">>,
      <<"2", "0", "2", "3", "_", "9", "1", "5">>,
      <<>> }

NameExtensions == {DOTCSV, <<".", "t", "x", "t">>, DOTCSV \o <<NL>>}

FileNames ==
    { h \o t \o s \o d \o x :
        h \in NameHeads, t \in SeqUpTo(TitleChars, MaxTitleLen),
        s \in NameSeparators, d \in DateFields, x \in NameExtensions }

InitName ==
    \E file \in FileNames, now \in {DATE_A, DATE_B} :
        /\ StartOfRun([args |-> Args(file, None, FALSE, None),
                       disk |-> (file :> File(<<>>))], now, "Idle")

NextName == ResolveName

SpecName == InitName /\ [][NextName]_vars

(***************************************************************************)
(* Vocabulary of the properties.                                           *)
(***************************************************************************)
Terminated == pc \in {"Done", "Failed", "crashed", "returned"}

CallsOf(op) == SelectSeq(calls, LAMBDA c : c.op = op)

VideoIds(cs) == [i \in 1..Len(cs) |-> cs[i].videoId]

Digits == {"0", "1", "2", "3", "4", "5", "6", "7", "8", "9"}

\* The export and the baseline of the run, as exports.
ExportRows == read_csv(args.csv_playlist)

BaselineRows == read_csv(Get(args.already_processed))

IdsOf(rows) == {rows[i].MediaId : i \in 1..Len(rows)}

\* The rows of seq whose MediaId is not in ids, in the order of seq, given
\* by the place of each kept row: the k-th kept row is the k-th row of the
\* result.
Kept(seq, ids, i) == Cardinality({j \in 1..i : seq[j].MediaId \notin ids})

IsRowsNotIn(result, seq, ids) ==
    /\ Len(result) = Kept(seq, ids, Len(seq))
    /\ \A i \in 1..Len(seq) :
           seq[i].MediaId \notin ids => result[Kept(seq, ids, i)] = seq[i]

(***************************************************************************)
(* C1. Per-item failure tolerance: in a run that is not a dry run and      *)
(* whose playlist was created, add_item is attempted for every position of *)
(* media_id, whichever insertions fail: when the run has ended, there is   *)
(* one add_item call per song, in order.                                   *)
(***************************************************************************)
C1_EveryPositionAttempted ==
    (Terminated /\ playlist # None) =>
        VideoIds(CallsOf("add_item")) = media_id

(***************************************************************************)
(* C2. A failed create_playlist call is the last call of the run: no       *)
(* add_item call and no other remote call follows it, the error is printed *)
(* and the run has ended in Failed.                                        *)
(***************************************************************************)
C2_CreationFailureAborts ==
    \A k \in 1..Len(calls) :
        (calls[k].op = "create_playlist" /\ ~calls[k].ok) =>
            /\ k = Len(calls)
            /\ CallsOf("add_item") = <<>>
            /\ playlist = None
            /\ pc = "Failed"
            /\ out[Len(out)].kind = "error"

C2_Witness ==
    /\ pc = "Failed"
    /\ calls[Len(calls)].op = "create_playlist"
    /\ ~calls[Len(calls)].ok
    /\ Len(media_id) >= 2

(***************************************************************************)
(* C3. A dry run is free of remote effects: with or without a baseline, a  *)
(* run with --dry-run makes no call to authenticate, create_playlist or    *)
(* add_item and never enters process_playlist; if its paths are valid it   *)
(* ends by returning after printing.                                       *)
(***************************************************************************)
C3_DryRunNoRemoteCalls ==
    args.dry_run =>
        /\ calls = <<>>
        /\ playlist = None
        /\ pc \in {"start", "Idle", "NameResolved", "Diffed", "returned",
                   "crashed"}
        /\ pc = "crashed" => raised \in {"AssertionError", "IsADirectoryError"}

C3_Witness ==
    /\ args.dry_run
    /\ args.already_processed # None
    /\ pc = "returned"
    /\ Len(out) >= 3

(***************************************************************************)
(* C4. Baseline diffing at run level: with the export E and the prior      *)
(* export P given as --already_processed, the tracks selected for the run  *)
(* are the rows of E whose MediaId does not occur in P, in the order of E. *)
(***************************************************************************)
C4_SelectsExportRowsNotInBaseline ==
    (args.already_processed # None /\ data # None) =>
        IsRowsNotIn(Get(data).rows, ExportRows, IdsOf(BaselineRows))

(***************************************************************************)
(* C5. Full-export sync: a run that is not a dry run, has no baseline and  *)
(* valid paths, and in which no call to a collaborator fails, ends having  *)
(* called add_item with the MediaId of every row of the export, in row     *)
(* order, each once.                                                       *)
(***************************************************************************)
C5_FullExportSync ==
    ( /\ Terminated
      /\ ~args.dry_run
      /\ args.already_processed = None
      /\ raised # "AssertionError"
      /\ \A k \in 1..Len(calls) : calls[k].ok ) =>
        VideoIds(CallsOf("add_item")) = MediaIdColumn(ExportRows)

(***************************************************************************)
(* C6. The result of get_unique_songs(A, B): it holds no row whose MediaId *)
(* occurs in A, and it is exactly the rows of B whose MediaId does not     *)
(* occur in A (every one of several rows sharing such an id), in the row   *)
(* order of B.                                                             *)
(***************************************************************************)
C6_UniqueSongs ==
    pc = "Diffed" =>
        /\ \A i \in 1..Len(Get(data).rows) :
               Get(data).rows[i].MediaId \notin IdsOf(ExportRows)
        /\ IsRowsNotIn(Get(data).rows, BaselineRows, IdsOf(ExportRows))

C6_Witness ==
    /\ pc = "Diffed"
    /\ Len(Get(data).rows) < Len(BaselineRows)
    /\ \E i, j \in 1..Len(Get(data).rows) :
           i < j /\ Get(data).rows[i].MediaId = Get(data).rows[j].MediaId

(***************************************************************************)
(* C7. Name derivation on match: for a file name                           *)
(* RMPlaylist_<title>_<YYYYMMDD>.csv whose title holds no "_" and whose    *)
(* date field is eight digits, get_youtube_playlist_name returns           *)
(* "YYYY-MM-DD <title>".                                                   *)
(***************************************************************************)
\* The file name read as RMPlaylist_<title>_<eight characters>.csv.
DateOf(file) == SubSeq(file, Len(file) - 11, Len(file) - 4)

TitleOf(file) == SubSeq(file, Len(PREFIX) + 1, Len(file) - 13)

HasStrictForm(file) ==
    /\ Len(file) >= Len(PREFIX) + 1 + 8 + Len(DOTCSV)
    /\ IsPrefix(PREFIX, file)
    /\ SubSeq(file, Len(file) - 3, Len(file)) = DOTCSV
    /\ file[Len(file) - 12] = "_"
    /\ Range(DateOf(file)) \subseteq Digits
    /\ "_" \notin Range(TitleOf(file))

C7_NameOnMatch ==
    (pc = "NameResolved" /\ HasStrictForm(args.csv_playlist)) =>
        LET d == DateOf(args.csv_playlist)
        IN  Get(playlist_name) =
                SubSeq(d, 1, 4) \o <<"-">> \o SubSeq(d, 5, 6) \o <<"-">>
                    \o SubSeq(d, 7, 8) \o <<" ">> \o TitleOf(args.csv_playlist)

(***************************************************************************)
(* C8. Name derivation fallback: for a file name that is not of the form   *)
(* RMPlaylist_<title>_<eight digits>.csv with a title free of "_",         *)
(* get_youtube_playlist_name returns the current date, a blank and the     *)
(* file name.                                                              *)
(***************************************************************************)
C8_NameFallback ==
    (pc = "NameResolved" /\ ~HasStrictForm(args.csv_playlist)) =>
        Get(playlist_name) = today \o <<" ">> \o args.csv_playlist

(***************************************************************************)
(* C9. Terminal states: Failed is entered only when create_playlist        *)
(* failed, never after the playlist was created; a run whose playlist was  *)
(* created ends in Done, with the loop having taken every song.            *)
(***************************************************************************)
C9_TerminalStates ==
    /\ pc = "Failed" => playlist = None
    /\ (Terminated /\ playlist # None) => (pc = "Done" /\ idx = Len(media_id))

(***************************************************************************)
(* C10. Diff identities: get_unique_songs(A, A) is empty,                  *)
(* get_unique_songs(empty, B) is B in its row order, and                   *)
(* get_unique_songs(A, empty) is empty.                                    *)
(***************************************************************************)
C10_DiffIdentities ==
    pc = "Diffed" =>
        /\ ExportRows = BaselineRows => Get(data).rows = <<>>
        /\ ExportRows = <<>> => Get(data).rows = BaselineRows
        /\ BaselineRows = <<>> => Get(data).rows = <<>>

C10_Witness ==
    /\ pc = "Diffed"
    /\ Get(args.already_processed) = args.csv_playlist
    /\ Len(ExportRows) >= 2
    /\ Get(data).rows = <<>>

(***************************************************************************)
(* C11. Title display stripping in the dry-run output: a dry run that      *)
(* returns has printed, after its heading, one line per selected track in  *)
(* row order (the diff with a baseline, the export without), each the      *)
(* artist, " - " and the title, the title without its first two characters *)
(* when these are "e:" and unchanged otherwise.                            *)
(***************************************************************************)
\* The lines of the output that show a track.
PrintedTracks == SelectSeq(out, LAMBDA l : l.kind = "track")

\* The rows a dry run is to show.
DryRunRows == IF args.already_processed # None THEN Get(data).rows ELSE ExportRows

HasMarker(title) == Len(title) >= 2 /\ title[1] = "e" /\ title[2] = ":"

IsDisplayOf(text, row) ==
    \E d \in {SubSeq(row.Title, k, Len(row.Title)) : k \in 1..(Len(row.Title) + 1)} :
        /\ text = row.Artists \o <<" ", "-", " ">> \o d
        /\ IF HasMarker(row.Title) THEN <<"e", ":">> \o d = row.Title
                                   ELSE d = row.Title

C11_DryRunTitleDisplay ==
    pc = "returned" =>
        /\ Len(PrintedTracks) = Len(DryRunRows)
        /\ \A i \in 1..Len(DryRunRows) :
               IsDisplayOf(PrintedTracks[i].text, DryRunRows[i])
        /\ \A i \in 1..Len(out) :
               out[i].kind = "track" => i > (IF args.already_processed # None THEN 1 ELSE 2)

C11_Witness ==
    /\ pc = "returned"
    /\ \E i, j \in 1..Len(DryRunRows) :
           /\ i < j
           /\ HasMarker(DryRunRows[i].Title)
           /\ ~HasMarker(DryRunRows[j].Title)
           /\ PrintedTracks[i].text = <<"A", " ", "-", " ", "S">>

(***************************************************************************)
(* C12. No retry and a single target playlist: create_playlist is called   *)
(* at most once; the k-th add_item call submits the k-th song, so no       *)
(* position is submitted twice and a failed call is the last call of the   *)
(* run; every add_item call carries the identifier that an earlier,        *)
(* successful create_playlist call of the run returned.                    *)
(***************************************************************************)
C12_NoRetrySinglePlaylist ==
    /\ Len(CallsOf("create_playlist")) <= 1
    /\ Len(CallsOf("add_item")) = idx
    /\ idx <= Len(media_id)
    /\ \A k \in 1..Len(CallsOf("add_item")) :
           CallsOf("add_item")[k].videoId = media_id[k]
    /\ \A k \in 1..Len(calls) :
           calls[k].op = "add_item" =>
               /\ \E j \in 1..(k - 1) :
                      /\ calls[j].op = "create_playlist"
                      /\ calls[j].ok
                      /\ calls[j].playlistId = calls[k].playlistId
               /\ ~calls[k].ok => k = Len(calls)

C12_Witness ==
    /\ pc = "Failed"
    /\ Len(CallsOf("add_item")) = 2
    /\ Len(media_id) = 3
    /\ calls[Len(calls)].op = "add_item"
    /\ calls[Len(calls)].playlistId = "PL2"
    /\ media_id[1] = media_id[2]

(***************************************************************************)
(* C13. Name resolution: the title passed to create_playlist is the        *)
(* playlist_name argument when one is given and otherwise                  *)
(* get_youtube_playlist_name of the base name of the export path; it is    *)
(* computed before any call to a collaborator, keeps its value once        *)
(* computed, and is the name process_playlist is entered with on the       *)
(* baseline path and on the path without baseline.                         *)
(***************************************************************************)
\* The base name of a path: its longest end that holds no "/".
BaseNameOf(path) ==
    CHOOSE b \in {SubSeq(path, k, Len(path)) : k \in 1..(Len(path) + 1)} :
        /\ "/" \notin Range(b)
        /\ Len(b) < Len(path) => path[Len(path) - Len(b)] = "/"

ExpectedTitle ==
    IF args.playlist_name # None THEN Get(args.playlist_name)
    ELSE get_youtube_playlist_name(BaseNameOf(args.csv_playlist), today)

C13_NameResolution ==
    /\ \A k \in 1..Len(calls) :
           calls[k].op = "create_playlist" => calls[k].title = ExpectedTitle
    /\ \A i \in 1..Len(out) :
           out[i].kind = "processing" => out[i].text = ExpectedTitle
    /\ playlist_name # None => playlist_name = Some(ExpectedTitle)
    /\ pc \in {"start", "Idle"} => playlist_name = None
    /\ playlist_name = None => calls = <<>>

C13_Witness ==
    /\ args.playlist_name = Some(MY_NAME)
    /\ args.already_processed # None
    /\ ReSearch(BaseNameOf(args.csv_playlist)) # None
    /\ \E k \in 1..Len(calls) :
           /\ calls[k].op = "create_playlist"
           /\ calls[k].ok
           /\ calls[k].title = MY_NAME

(***************************************************************************)
(* C14. Authentication ordering.                                           *)
(***************************************************************************)
\* The paths of the run pass the assertions of main and hold files.
ExportPathPasses ==
    /\ disk[args.csv_playlist].kind = "file"
    /\ Suffix(args.csv_playlist) = DOTCSV

BaselinePathPasses ==
    args.already_processed # None =>
        /\ disk[Get(args.already_processed)].kind = "file"
        /\ Suffix(Get(args.already_processed)) = DOTCSV

\* authenticate is the first call, made at most once; a remote call is made
\* only after it succeeded; when it fails it is the only call of the run,
\* which has halted with the error.
AuthenticateFirst ==
    /\ Len(CallsOf("authenticate")) <= 1
    /\ calls # <<>> => calls[1].op = "authenticate"
    /\ Len(calls) >= 2 => calls[1].ok
    /\ (calls # <<>> /\ ~calls[1].ok) => (pc = "crashed" /\ raised = "AuthError")

\* C14 as claimed: in EVERY run that is not a dry run authenticate is called
\* exactly once, before the first remote call, and a failure of it halts the
\* run with no create_playlist and no add_item call.
C14_AuthenticatesInEveryRun ==
    /\ AuthenticateFirst
    /\ (Terminated /\ ~args.dry_run) => Len(CallsOf("authenticate")) = 1

\* C14 as amended: in every run that is not a dry run and whose paths pass
\* the checks of main, authenticate is called exactly once, before the first
\* remote call, and a failure of it halts the run with no create_playlist
\* and no add_item call; a run whose paths fail the checks ends without a
\* call to authenticate.
C14_AuthenticationOrdering ==
    /\ AuthenticateFirst
    /\ (Terminated /\ ~args.dry_run /\ ExportPathPasses /\ BaselinePathPasses)
           => Len(CallsOf("authenticate")) = 1
    /\ ~(ExportPathPasses /\ BaselinePathPasses) => calls = <<>>

C14_Witness ==
    /\ pc = "crashed"
    /\ raised = "AuthError"
    /\ ~args.dry_run
    /\ args.already_processed # None
    /\ Len(Get(data).rows) >= 2
    /\ Len(calls) = 1

(***************************************************************************)
(* C15. Precondition failures are fatal before any remote interaction.     *)
(***************************************************************************)
\* The export path does not exist, is not a file or does not end in .csv.
ExportPathFails ==
    \/ disk[args.csv_playlist].kind # "file"
    \/ Suffix(args.csv_playlist) # DOTCSV

\* The --already_processed path does not exist or does not end in .csv.
BaselinePathFails ==
    /\ args.already_processed # None
    /\ \/ disk[Get(args.already_processed)].kind = "missing"
       \/ Suffix(Get(args.already_processed)) # DOTCSV

\* Nothing of the diff, of the authentication or of a remote call has
\* taken place, and nothing was printed.
NothingProcessed == data = None /\ calls = <<>> /\ playlist = None /\ out = <<>>

\* C15 as claimed: a run with a failing export path or a failing
\* --already_processed path has resolved no name, made no diff, and called
\* no collaborator, and ends by the failed assertion.
C15_AbortsBeforeNameResolution ==
    (ExportPathFails \/ BaselinePathFails) =>
        /\ playlist_name = None
        /\ NothingProcessed
        /\ Terminated => (pc = "crashed" /\ raised = "AssertionError")

\* C15 as amended: a failing export path aborts the run before name
\* resolution, diffing, authentication and any remote call; a failing
\* --already_processed path (the export path passing) aborts it after name
\* resolution and before diffing, authentication and any remote call.
C15_PreconditionFailuresAbort ==
    /\ ExportPathFails =>
           /\ pc \in {"start", "crashed"}
           /\ playlist_name = None
           /\ NothingProcessed
    /\ BaselinePathFails =>
           /\ pc \in {"start", "Idle", "NameResolved", "crashed"}
           /\ NothingProcessed
    /\ ((ExportPathFails \/ BaselinePathFails) /\ pc = "crashed")
           => raised = "AssertionError"

C15_Witness ==
    /\ pc = "crashed"
    /\ raised = "AssertionError"
    /\ ~ExportPathFails
    /\ BaselinePathFails
    /\ disk[Get(args.already_processed)].kind = "missing"
    /\ playlist_name # None
    /\ ~args.dry_run

====
